---- MODULE Spec2Model ----
(***************************************************************************)
(* Dependency-chain resolution of quicksight-power-tools                   *)
(* (src/utils/graphUtils.ts): extractTokens and getDependencyChain with    *)
(* its recursive closure findDependencies, as a state machine that runs    *)
(* one call step by step with an explicit call stack.                      *)
(*                                                                         *)
(* Strings are sequences of one-character strings, so that tokenization    *)
(* and name equality are computed character by character.                  *)
(***************************************************************************)
EXTENDS Integers, Sequences, FiniteSets, TLC

VARIABLES
    expression,        \* first argument: the selected CalculatedField
    calculatedFields,  \* second argument: the CalculatedField list
    chain,             \* local `chain`
    visited,           \* local `visited` (Set<string>)
    fieldMap,          \* local `fieldMap` (Map<string, CalculatedField>)
    parent,            \* history: parent[j] is the index of the chain entry
                       \* whose expansion appended chain[j] (0 for the first)
    stack,             \* call stack of findDependencies activations
    pc,                \* "init" | "running" | "done"
    outcome,           \* "none" | "returned" | "threw"
    warned,            \* whether console.warn has been called
    history,           \* history: the calls that have returned, in order, each
                       \* with its arguments and the chain it returned
    sidebar,           \* the useState values of the Sidebar component
    hooks,             \* what the Sidebar's effects and timers hold: the
                       \* dependencies of the last run, prevUrl, the intervals
    env,               \* window.location.href and the clock
    inflight,          \* the requests of refreshData and
                       \* fetchCloudTrailEventsData that are awaited
    tagCache,          \* tagEnhancer's tagCache object
    tagCalls,          \* the getResourceTags calls awaiting fetchResourceTags
    tagLast,           \* history: the last getResourceTags call that returned
    trail              \* fetchCloudTrailEvents: its locals, those of
                       \* fetchEventsForName, and the answers of CloudTrail

resolverVars == <<expression, calculatedFields, chain, parent, visited, fieldMap,
                  stack, pc, outcome, warned, history>>

sidebarVars == <<sidebar, hooks, env, inflight>>

tagVars == <<tagCache, tagCalls, tagLast>>

vars == <<expression, calculatedFields, chain, parent, visited, fieldMap, stack,
          pc, outcome, warned, history, sidebar, hooks, env, inflight, tagCache,
          tagCalls, tagLast, trail>>

----------------------------------------------------------------------------
(* Bounds of the checked input families *)

\* longest reference list of an expression of the graph family
MaxRefs == 2
\* longest expression (in characters) of the tokenizer family
MaxExprLen == 4
\* index of the last field of the linear chain F0 -> F1 -> ... scenario
ChainLast == 25
\* most calls made one after the other
MaxCalls == 3

----------------------------------------------------------------------------
(* Characters *)

LowerChars == {"a", "b", "c", "d", "e", "f", "g", "h", "i", "j", "k", "l", "m",
               "n", "o", "p", "q", "r", "s", "t", "u", "v", "w", "x", "y", "z"}
UpperChars == {"A", "B", "C", "D", "E", "F", "G", "H", "I", "J", "K", "L", "M",
               "N", "O", "P", "Q", "R", "S", "T", "U", "V", "W", "X", "Y", "Z"}
DigitChars == <<"0", "1", "2", "3", "4", "5", "6", "7", "8", "9">>

\* variant: the hyphen is a separator
IsTokenCharNoHyphen(char) ==
    char \in LowerChars \cup UpperChars \cup {"_"}
        \cup {DigitChars[k] : k \in 1..10}

\* variant: a space is a token character
IsTokenCharOrSpace(char) ==
    char \in LowerChars \cup UpperChars \cup {"_", "-", " "}
        \cup {DigitChars[k] : k \in 1..10}

\* /[\w-]/.test(char): \w is [A-Za-z0-9_]
IsTokenChar(char) ==
    char \in LowerChars \cup UpperChars \cup {"_", "-"}
        \cup {DigitChars[k] : k \in 1..10}

----------------------------------------------------------------------------
(* extractTokens *)

\* loop variables before the first character
ScanInit ==
    [tokens |-> << >>, inSingleQuote |-> FALSE, inDoubleQuote |-> FALSE,
     token |-> << >>]

\* variant: quotes are ordinary separators and no literal is skipped
ScanStepNoQuotes(s, char) ==
    IF IsTokenChar(char)
    THEN [s EXCEPT !.token = Append(@, char)]
    ELSE IF Len(s.token) > 0
         THEN [s EXCEPT !.tokens = Append(@, s.token), !.token = << >>]
         ELSE s

\* variant: a quote toggles its state whatever the other state is
ScanStepAlwaysToggle(s, char) ==
    IF char = "'"
    THEN [s EXCEPT !.inSingleQuote = ~@]
    ELSE IF char = "\""
    THEN [s EXCEPT !.inDoubleQuote = ~@]
    ELSE IF s.inSingleQuote \/ s.inDoubleQuote
    THEN s
    ELSE IF IsTokenChar(char)
    THEN [s EXCEPT !.token = Append(@, char)]
    ELSE IF Len(s.token) > 0
         THEN [s EXCEPT !.tokens = Append(@, s.token), !.token = << >>]
         ELSE s

\* variant: a quote ends the token in progress
ScanStepQuoteEndsToken(s, char) ==
    IF char = "'" /\ ~s.inDoubleQuote
    THEN [s EXCEPT !.inSingleQuote = ~@,
                   !.tokens = IF Len(s.token) > 0 THEN Append(@, s.token) ELSE @,
                   !.token = << >>]
    ELSE IF char = "\"" /\ ~s.inSingleQuote
    THEN [s EXCEPT !.inDoubleQuote = ~@,
                   !.tokens = IF Len(s.token) > 0 THEN Append(@, s.token) ELSE @,
                   !.token = << >>]
    ELSE IF s.inSingleQuote \/ s.inDoubleQuote
    THEN s
    ELSE IF IsTokenChar(char)
    THEN [s EXCEPT !.token = Append(@, char)]
    ELSE IF Len(s.token) > 0
         THEN [s EXCEPT !.tokens = Append(@, s.token), !.token = << >>]
         ELSE s

\* variant: a token that was emitted before is not emitted again
ScanStepOncePerWord(s, char) ==
    IF char = "'" /\ ~s.inDoubleQuote
    THEN [s EXCEPT !.inSingleQuote = ~@]
    ELSE IF char = "\"" /\ ~s.inSingleQuote
    THEN [s EXCEPT !.inDoubleQuote = ~@]
    ELSE IF s.inSingleQuote \/ s.inDoubleQuote
    THEN s
    ELSE IF IsTokenChar(char)
    THEN [s EXCEPT !.token = Append(@, char)]
    ELSE IF Len(s.token) > 0
         THEN [s EXCEPT !.tokens = IF \E j \in DOMAIN s.tokens : s.tokens[j] = s.token
                                   THEN @ ELSE Append(@, s.token),
                        !.token = << >>]
         ELSE s

\* lines 22-47: one iteration of the for loop
ScanStep(s, char) ==
    IF char = "'" /\ ~s.inDoubleQuote
    THEN [s EXCEPT !.inSingleQuote = ~@]
    ELSE IF char = "\"" /\ ~s.inSingleQuote
    THEN [s EXCEPT !.inDoubleQuote = ~@]
    ELSE IF s.inSingleQuote \/ s.inDoubleQuote
    THEN s
    ELSE IF IsTokenChar(char)
    THEN [s EXCEPT !.token = Append(@, char)]
    ELSE IF Len(s.token) > 0
         THEN [s EXCEPT !.tokens = Append(@, s.token), !.token = << >>]
         ELSE s

\* loop variables after the first n characters of expr
RECURSIVE ScanPrefix(_, _)
ScanPrefix(expr, n) ==
    IF n = 0 THEN ScanInit
    ELSE CHOOSE next \in {ScanStep(s, expr[n]) : s \in {ScanPrefix(expr, n - 1)}} :
            TRUE

\* variant: the token in progress is lost when a quote is left open
ScanEndInsideQuoteDrops(s) ==
    IF Len(s.token) > 0 /\ ~(s.inSingleQuote \/ s.inDoubleQuote)
    THEN Append(s.tokens, s.token)
    ELSE s.tokens

\* lines 50-55: push the last token if it exists
ScanEnd(s) == IF Len(s.token) > 0 THEN Append(s.tokens, s.token) ELSE s.tokens

extractTokens(expr) ==
    CHOOSE tokens \in {ScanEnd(s) : s \in {ScanPrefix(expr, Len(expr))}} : TRUE

----------------------------------------------------------------------------
(* Map and chain helpers *)

Undefined == [undefined |-> TRUE]

EmptyMap == << >>

MapHas(m, k) == k \in DOMAIN m

MapGet(m, k) == IF k \in DOMAIN m THEN m[k] ELSE Undefined

MapSet(m, k, v) == (k :> v) @@ m

\* calculatedFields.forEach((field) => fieldMap.set(field.name, field))
RECURSIVE BuildFieldMap(_, _)
BuildFieldMap(fields, n) ==
    IF n = 0 THEN EmptyMap
    ELSE CHOOSE next \in {MapSet(m, fields[n].name, fields[n]) :
                             m \in {BuildFieldMap(fields, n - 1)}} : TRUE

\* variant: the entry is tagged with another type
ChainEntryUntyped(field, level) ==
    [alias |-> field.name, expression |-> field.expression,
     type |-> "field", level |-> level]

\* lines 72-77 and 108-113: the object pushed onto chain
ChainEntry(field, level) ==
    [alias |-> field.name, expression |-> field.expression,
     type |-> "calculatedField", level |-> level]

\* variant: the selected expression entered at level 1
TargetEntryLevelOne(field) == ChainEntry(field, 1)

\* lines 72-77: the entry pushed for the selected expression
TargetEntry(field) == ChainEntry(field, 0)

\* variant: the selected expression is not marked visited
InitialVisitedEmpty(field) == {}

\* line 78: visited after `visited.add(expression.name)`
InitialVisited(field) == {field.name}

\* the depth limit of findDependencies
MaxDepth == 20

\* variant: no depth limit
DepthNeverExceeded(level) == FALSE

\* variant: the limit is hit one level earlier
DepthExceededAtLimit(level) == level >= MaxDepth

\* line 90: level > 20
DepthExceeded(level) == level > MaxDepth

\* variant: the visited set is not consulted
IsNewDependencyNoVisited(map, seen, token) == MapHas(map, token)

\* variant: the lookup map is not consulted
IsNewDependencyNoHas(map, seen, token) == token \notin seen

\* line 106: fieldMap.has(normalizedToken) && !visited.has(normalizedToken)
IsNewDependency(map, seen, token) == MapHas(map, token) /\ token \notin seen

\* an activation of findDependencies(currentField, level); pos is the index
\* of currentField's entry in chain, i the forEach index into tokens
Frame(field, level, pos) ==
    [currentField |-> field, level |-> level, phase |-> "entry",
     tokens |-> << >>, i |-> 1, pos |-> pos]

\* variant: the expansion is deferred until the pending ones are over
PushFrameDeferred(stk, frame) == <<frame>> \o stk

\* variant: the recursive call is left out
PushFrameDropped(stk, frame) == stk

\* line 115: the recursive call runs before the forEach continues
PushFrame(stk, frame) == Append(stk, frame)

PopFrame(stk) == SubSeq(stk, 1, Len(stk) - 1)

Top == stack[Len(stack)]

\* variant: the tokens are visited right to left
CurrentTokenReversed(frame) == frame.tokens[Len(frame.tokens) + 1 - frame.i]

UpperLetters ==
    <<"A", "B", "C", "D", "E", "F", "G", "H", "I", "J", "K", "L", "M",
      "N", "O", "P", "Q", "R", "S", "T", "U", "V", "W", "X", "Y", "Z">>

LowerLetters ==
    <<"a", "b", "c", "d", "e", "f", "g", "h", "i", "j", "k", "l", "m",
      "n", "o", "p", "q", "r", "s", "t", "u", "v", "w", "x", "y", "z">>

ToLowerCase(char) ==
    IF \E k \in DOMAIN UpperLetters : UpperLetters[k] = char
    THEN LowerLetters[CHOOSE k \in DOMAIN UpperLetters : UpperLetters[k] = char]
    ELSE char

\* variant: the token is lower-cased before the lookup
CurrentTokenLowerCased(frame) ==
    [k \in DOMAIN frame.tokens[frame.i] |-> ToLowerCase(frame.tokens[frame.i][k])]

\* lines 101-103: the token the forEach callback is called with, looked up
\* as it is (`normalizedToken = token`)
CurrentToken(frame) == frame.tokens[frame.i]

\* variant: the loop does not advance
NextTokenStuck(frame) == frame

\* lines 101-117: the forEach moves to the next token
NextToken(frame) == [frame EXCEPT !.i = @ + 1]

ReplaceTop(stk, frame) == [stk EXCEPT ![Len(stk)] = frame]

----------------------------------------------------------------------------
(* Inputs: the CalculatedField records the calls are made with *)

\* a CalculatedField; its dataSetIdentifier is never read by graphUtils.ts
Field(name, expr) == [name |-> name, expression |-> expr]

\* names joined by single spaces
RECURSIVE JoinNames(_)
JoinNames(names) ==
    IF Len(names) = 0 THEN << >>
    ELSE IF Len(names) = 1 THEN names[1]
    ELSE names[1] \o <<" ">> \o JoinNames(Tail(names))

(* Graph family: every list of fields with distinct names from FieldNames, *)
(* each expression a list of at most MaxRefs distinct names of FieldNames, *)
(* resolved from every member of the list.                                 *)
FieldNames == << <<"a">>, <<"b">>, <<"c">> >>

RefSeqs ==
    {r \in UNION {[1..n -> DOMAIN FieldNames] : n \in 0..MaxRefs} :
        \A x, y \in DOMAIN r : x # y => r[x] # r[y]}

GraphExprs == {JoinNames([k \in DOMAIN r |-> FieldNames[r[k]]]) : r \in RefSeqs}

Max(S) == CHOOSE m \in S : \A x \in S : x <= m

Min(S) == CHOOSE m \in S : \A x \in S : m <= x

RECURSIVE FieldList(_, _)
FieldList(S, exprOf) ==
    IF S = {} THEN << >>
    ELSE LET m == Max(S)
         IN  Append(FieldList(S \ {m}, exprOf), Field(FieldNames[m], exprOf[m]))

GraphFieldLists ==
    UNION {{FieldList(S, e) : e \in [S -> GraphExprs]} :
              S \in SUBSET (DOMAIN FieldNames)}

GraphInputs ==
    UNION {{[target |-> fl[k], fields |-> fl] : k \in DOMAIN fl} :
              fl \in GraphFieldLists}

(* Tokenizer family: a target whose expression is any string of at most    *)
(* MaxExprLen characters of TokenAlphabet, in a fixed list of fields.      *)
TokenAlphabet == {"a", "b", "'", "\"", " ", "-"}

TokenExprs == UNION {[1..n -> TokenAlphabet] : n \in 0..MaxExprLen}

TokenTargetName == <<"t">>

TokenFields ==
    << Field(<<"a">>, << >>),
       Field(<<"b">>, <<"a">>),
       Field(<<"a", "b">>, <<"'", "b">>),
       Field(<<"a", "-", "b">>, <<"t", " ", "b">>),
       Field(<< >>, <<"a">>) >>

TokenInputs ==
    {[target |-> Field(TokenTargetName, e),
      fields |-> <<Field(TokenTargetName, e)>> \o TokenFields] : e \in TokenExprs}

(* Scenarios of the specification's testable properties *)

\* A references B, B references A
CycleFields == << Field(<<"A">>, <<"B">>), Field(<<"B">>, <<"A">>) >>
CycleInput == [target |-> CycleFields[1], fields |-> CycleFields]

\* A references B then C, B references D
DepthFirstFields ==
    << Field(<<"A">>, <<"B", " ", "+", " ", "C">>), Field(<<"B">>, <<"D">>),
       Field(<<"C">>, << >>), Field(<<"D">>, << >>) >>
DepthFirstInput == [target |-> DepthFirstFields[1], fields |-> DepthFirstFields]

\* `revenue_total + tax`
RevenueTotalName == <<"r", "e", "v", "e", "n", "u", "e", "_", "t", "o", "t", "a", "l">>
TaxName == <<"t", "a", "x">>
TotalName == <<"t", "o", "t", "a", "l">>
RevenueName == <<"r", "e", "v", "e", "n", "u", "e">>
BoundaryTarget ==
    Field(<<"s", "e", "l", "f">>,
          <<"r", "e", "v", "e", "n", "u", "e", "_", "t", "o", "t", "a", "l", " ",
            "+", " ", "t", "a", "x">>)
BoundaryFields ==
    << BoundaryTarget, Field(TaxName, << >>), Field(RevenueName, << >>),
       Field(TotalName, << >>), Field(RevenueTotalName, << >>) >>
BoundaryInput == [target |-> BoundaryTarget, fields |-> BoundaryFields]

\* `ifelse(status = 'Active', revenue, 0)`
ActiveName == <<"A", "c", "t", "i", "v", "e">>
StatusName == <<"s", "t", "a", "t", "u", "s">>
LiteralTarget ==
    Field(<<"f", "l", "a", "g">>,
          <<"i", "f", "e", "l", "s", "e", "(", "s", "t", "a", "t", "u", "s", " ",
            "=", " ", "'", "A", "c", "t", "i", "v", "e", "'", ",", " ", "r", "e",
            "v", "e", "n", "u", "e", ",", " ", "0", ")">>)
LiteralFields ==
    << LiteralTarget, Field(ActiveName, << >>), Field(StatusName, << >>),
       Field(RevenueName, << >>) >>
LiteralInput == [target |-> LiteralTarget, fields |-> LiteralFields]

\* `a'ab'b`: the name ab is spelled only inside the literal
JoinedTarget == Field(<<"j">>, <<"a", "'", "a", "b", "'", "b">>)
JoinedFields == << JoinedTarget, Field(<<"a", "b">>, << >>) >>
JoinedInput == [target |-> JoinedTarget, fields |-> JoinedFields]

\* F0 -> F1 -> ... -> F<ChainLast>
Decimal(k) ==
    IF k < 10 THEN <<DigitChars[k + 1]>>
    ELSE <<DigitChars[(k \div 10) + 1], DigitChars[(k % 10) + 1]>>
LinearName(k) == <<"F">> \o Decimal(k)
LinearFields ==
    [k \in 1..(ChainLast + 1) |->
        Field(LinearName(k - 1),
              IF k - 1 < ChainLast THEN LinearName(k) ELSE << >>)]
LinearInput == [target |-> LinearFields[1], fields |-> LinearFields]

\* a = `b c`, b = `c`: c is referenced at depth 1 and found at depth 2
FirstVisitFields ==
    << Field(<<"a">>, <<"b", " ", "c">>), Field(<<"b">>, <<"c">>),
       Field(<<"c">>, << >>) >>
FirstVisitInput == [target |-> FirstVisitFields[1], fields |-> FirstVisitFields]

\* a caller-supplied a = `b` beside the records a = `c`, b = `a`, c
ShadowTarget == Field(<<"a">>, <<"b">>)
ShadowFields ==
    << Field(<<"a">>, <<"c">>), Field(<<"b">>, <<"a">>), Field(<<"c">>, << >>) >>
ShadowInput == [target |-> ShadowTarget, fields |-> ShadowFields]

\* F0, not in the list, references F1 -> F2 -> ... -> F<MaxDepth>
FullDepthTarget == Field(LinearName(0), LinearName(1))
FullDepthFields ==
    [k \in 1..MaxDepth |->
        Field(LinearName(k), IF k < MaxDepth THEN LinearName(k + 1) ELSE << >>)]
FullDepthInput == [target |-> FullDepthTarget, fields |-> FullDepthFields]

\* `"it's" x`
MixedQuoteTarget ==
    Field(<<"m">>, <<"\"", "i", "t", "'", "s", "\"", " ", "x">>)
MixedQuoteFields ==
    << MixedQuoteTarget, Field(<<"x">>, << >>), Field(<<"s">>, << >>),
       Field(<<"i", "t">>, << >>) >>
MixedQuoteInput == [target |-> MixedQuoteTarget, fields |-> MixedQuoteFields]

\* `ab'x'cd`
SinkTarget == Field(<<"k">>, <<"a", "b", "'", "x", "'", "c", "d">>)
SinkFields ==
    << SinkTarget, Field(<<"a", "b">>, << >>), Field(<<"c", "d">>, << >>),
       Field(<<"x">>, << >>), Field(<<"a", "b", "c", "d">>, << >>) >>
SinkInput == [target |-> SinkTarget, fields |-> SinkFields]

\* `Tax + reven + tota`: names in another case, a prefix, a suffix-less name
CaseTarget ==
    Field(<<"n">>,
          <<"T", "a", "x", " ", "+", " ", "r", "e", "v", "e", "n", " ", "+", " ",
            "t", "o", "t", "a">>)
CaseFields ==
    << CaseTarget, Field(TaxName, << >>), Field(RevenueName, << >>),
       Field(TotalName, << >>), Field(<<"a", "x">>, << >>) >>
CaseInput == [target |-> CaseTarget, fields |-> CaseFields]

\* F0 = `F1 S`, F1 -> ... -> F<MaxDepth> -> X -> Y and S -> X: X is found
\* first at the end of the long path
HiddenFields ==
    [k \in 1..(MaxDepth + 4) |->
        IF k = 1 THEN Field(LinearName(0), LinearName(1) \o <<" ", "S">>)
        ELSE IF k <= MaxDepth THEN Field(LinearName(k - 1), LinearName(k))
        ELSE IF k = MaxDepth + 1 THEN Field(LinearName(MaxDepth), <<"X">>)
        ELSE IF k = MaxDepth + 2 THEN Field(<<"X">>, <<"Y">>)
        ELSE IF k = MaxDepth + 3 THEN Field(<<"S">>, <<"X">>)
        ELSE Field(<<"Y">>, << >>)]
HiddenInput == [target |-> HiddenFields[1], fields |-> HiddenFields]

\* `a b+a.b` among fields named `a b`, `a.b`, the empty string, a and b
SpacedTarget == Field(<<"q">>, <<"a", " ", "b", "+", "a", ".", "b">>)
SpacedFields ==
    << SpacedTarget, Field(<<"a", " ", "b">>, << >>), Field(<<"a", ".", "b">>, << >>),
       Field(<< >>, << >>), Field(<<"a">>, << >>), Field(<<"b">>, << >>) >>
SpacedInput == [target |-> SpacedTarget, fields |-> SpacedFields]

ScenarioInputs ==
    {CycleInput, DepthFirstInput, BoundaryInput, LiteralInput, JoinedInput,
     LinearInput, FirstVisitInput, ShadowInput, FullDepthInput, MixedQuoteInput, SinkInput,
     CaseInput, HiddenInput, SpacedInput}

(* Caller family: a caller-supplied record, named z (no record has that    *)
(* name) or a (a record may have it, with any expression), resolved in     *)
(* every list of fields named a and b.                                     *)
CallerNames == {<<"z">>, <<"a">>}

CallerFieldLists ==
    UNION {{FieldList(S, e) : e \in [S -> GraphExprs]} : S \in SUBSET {1, 2}}

CallerInputs ==
    {[target |-> Field(n, e), fields |-> fl] :
        n \in CallerNames, e \in GraphExprs, fl \in CallerFieldLists}

Inputs == GraphInputs \cup TokenInputs \cup ScenarioInputs \cup CallerInputs

\* the arguments of the calls made one after the other
SessionInputs ==
    {CycleInput, DepthFirstInput, FirstVisitInput, ShadowInput, JoinedInput,
     LinearInput}

----------------------------------------------------------------------------
(* The Sidebar component (src/components/Sidebar.tsx) *)

Null == [null |-> TRUE]

\* a JavaScript array
Array(items) == [array |-> items]

\* the last second of the clock
MaxTime == 1
\* most requests awaited at one time
MaxInFlight == 2

\* the credentials object the form hands over
Creds == [accessKeyId |-> "key"]

\* window.location.href: the path segments and the analysisId query parameter
Url(path, analysisIdParam) == [path |-> path, analysisIdParam |-> analysisIdParam]

StartUrl == Url(<<"start">>, Null)

\* a non-empty string that names an analysis
Id(string) == [id |-> string]

Urls ==
    {StartUrl, Url(<<"analyses", "X">>, Null), Url(<<"dashboards", "d">>, Id("Y"))}

\* the query parameter if there is one, or the segment after `analyses`
getAnalysisIdFromUrl(url) ==
    IF url.analysisIdParam # Null
    THEN url.analysisIdParam
    ELSE IF \E k \in 1..(Len(url.path) - 1) : url.path[k] = "analyses"
         THEN Id(url.path[1 + CHOOSE k \in 1..(Len(url.path) - 1) :
                                  /\ url.path[k] = "analyses"
                                  /\ \A m \in 1..(k - 1) : url.path[m] # "analyses"])
         ELSE Null

\* what the service answers for an analysis
MetadataOf(analysisId) == [AnalysisId |-> analysisId]

FieldsOf(analysisId) == <<[name |-> "f", analysis |-> analysisId]>>

EventsOf(analysisId) == <<[EventName |-> "UpdateAnalysis", AnalysisId |-> analysisId]>>

\* the session expiration string: a time, or a string that is no date
Expiration(valid, time) == [valid |-> valid, time |-> time]

Expirations == {Expiration(TRUE, time) : time \in 1..MaxTime} \cup {Expiration(FALSE, 0)}

\* dayjs(expiration).diff(dayjs()): a number of seconds or NaN
Diff(expiration, now) ==
    IF expiration.valid THEN [nan |-> FALSE, value |-> expiration.time - now]
    ELSE [nan |-> TRUE, value |-> 0]

\* variant: the session is kept through the second it expires in
TimeIsLeftOrNow(expiration, now) ==
    ~Diff(expiration, now).nan /\ Diff(expiration, now).value >= 0

\* line 22 of the timer: diff > 0, which is false of NaN
TimeIsLeft(expiration, now) ==
    ~Diff(expiration, now).nan /\ Diff(expiration, now).value > 0

\* the useState initial values
SidebarInitial ==
    [credentials |-> Null, error |-> Null, sessionExpiration |-> Null,
     showJsonInput |-> TRUE, analysisId |-> Null, analysisMetadata |-> Null,
     calculatedFields |-> << >>, cloudTrailEvents |-> << >>,
     isChangeHistoryLoaded |-> FALSE, isCalculatedFieldsLoading |-> FALSE,
     isChangeHistoryLoading |-> FALSE]

\* the dependency arrays of the effects, as a render with state s has them
CredentialsDeps(s) == <<s.credentials>>

RefreshDeps(s) == <<s.credentials, s.analysisId>>

HistoryDeps(s) == <<s.credentials, s.analysisId, s.isChangeHistoryLoaded>>

\* after the first render: every effect has run once without credentials
SidebarMounted ==
    /\ sidebar = SidebarInitial
    /\ hooks = [credentialsDeps |-> CredentialsDeps(SidebarInitial),
                refreshDeps |-> RefreshDeps(SidebarInitial),
                historyDeps |-> HistoryDeps(SidebarInitial),
                prevUrl |-> Null, polling |-> FALSE, timeLeft |-> ""]
    /\ env = [url |-> StartUrl, now |-> 0]
    /\ inflight = {}

\* no effect is waiting to run
EffectsFlushed ==
    /\ hooks.credentialsDeps = CredentialsDeps(sidebar)
    /\ hooks.refreshDeps = RefreshDeps(sidebar)
    /\ hooks.historyDeps = HistoryDeps(sidebar)

Request(kind, analysisId) == [kind |-> kind, analysisId |-> analysisId]

\* lines 210-221: the form hands the credentials over
handleCredentialsReceived ==
    /\ sidebar.showJsonInput
    /\ EffectsFlushed
    /\ \E expiration \in Expirations :
          sidebar' = [sidebar EXCEPT !.credentials = Creds,
                                     !.sessionExpiration = expiration,
                                     !.error = Null,
                                     !.showJsonInput = FALSE]
    /\ hooks' = [hooks EXCEPT !.timeLeft = ""]
    /\ UNCHANGED <<env, inflight>>
    /\ UNCHANGED <<resolverVars, tagVars, trail>>

\* lines 128-141: the state the credentials effect sets
CredentialsEffect(s, url) ==
    IF s.credentials # Null
    THEN [analysisId |-> getAnalysisIdFromUrl(url)]
    ELSE [analysisId |-> Null, calculatedFields |-> << >>,
          cloudTrailEvents |-> << >>, isChangeHistoryLoaded |-> FALSE]

\* lines 144-167: the interval is cleared, and set again with credentials
PollEffect(s, h, url) ==
    IF s.credentials # Null
    THEN [h EXCEPT !.prevUrl = url, !.polling = TRUE]
    ELSE [h EXCEPT !.polling = FALSE]

\* lines 104-111 and 170-174: the requests the refresh effect leaves awaited
RefreshEffect(s) ==
    IF s.credentials # Null /\ s.analysisId # Null
    THEN {Request("refresh", s.analysisId)}
    ELSE {}

\* lines 176-186 and 204-208: the request the change history effect leaves awaited
HistoryEffect(s) ==
    IF s.credentials # Null /\ s.analysisId # Null /\ ~s.isChangeHistoryLoaded
    THEN {Request("trail", s.analysisId)}
    ELSE {}

\* one record overriding the fields of another
Override(s, changes) ==
    [f \in DOMAIN s |-> IF f \in DOMAIN changes THEN changes[f] ELSE s[f]]

\* after a render the effects whose dependencies changed run, in order, each
\* with the values of that render
FlushEffects ==
    /\ ~EffectsFlushed
    /\ LET credentialsRun == hooks.credentialsDeps # CredentialsDeps(sidebar)
           refreshRun == hooks.refreshDeps # RefreshDeps(sidebar)
           historyRun == hooks.historyDeps # HistoryDeps(sidebar)
           started == (IF refreshRun THEN RefreshEffect(sidebar) ELSE {})
                        \cup (IF historyRun THEN HistoryEffect(sidebar) ELSE {})
           afterCredentials ==
               IF credentialsRun
               THEN Override(sidebar, CredentialsEffect(sidebar, env.url))
               ELSE sidebar
       IN  /\ Cardinality(inflight \cup started) <= MaxInFlight
           /\ sidebar' =
                 [afterCredentials EXCEPT
                     !.isCalculatedFieldsLoading =
                         IF \E r \in started : r.kind = "refresh" THEN TRUE ELSE @,
                     !.isChangeHistoryLoading =
                         IF \E r \in started : r.kind = "trail" THEN TRUE ELSE @]
           /\ inflight' = inflight \cup started
           /\ hooks' = [(IF credentialsRun THEN PollEffect(sidebar, hooks, env.url)
                                           ELSE hooks)
                           EXCEPT !.credentialsDeps = CredentialsDeps(sidebar),
                                  !.refreshDeps = RefreshDeps(sidebar),
                                  !.historyDeps = HistoryDeps(sidebar)]
    /\ UNCHANGED env
    /\ UNCHANGED <<resolverVars, tagVars, trail>>

\* the user moves to another page
Navigate ==
    /\ \E url \in Urls \ {env.url} : env' = [env EXCEPT !.url = url]
    /\ UNCHANGED <<sidebar, hooks, inflight>>
    /\ UNCHANGED <<resolverVars, tagVars, trail>>

\* lines 148-161: the interval finds another URL
PollTick ==
    /\ hooks.polling
    /\ env.url # hooks.prevUrl
    /\ hooks' = [hooks EXCEPT !.prevUrl = env.url]
    /\ sidebar' = [sidebar EXCEPT !.analysisId = getAnalysisIdFromUrl(env.url),
                                  !.calculatedFields = << >>,
                                  !.cloudTrailEvents = << >>,
                                  !.isChangeHistoryLoaded = FALSE]
    /\ UNCHANGED <<env, inflight>>
    /\ UNCHANGED <<resolverVars, tagVars, trail>>

\* lines 112-115 and 122
RefreshAnswer(s, analysisId, metadata) ==
    [s EXCEPT !.analysisMetadata = metadata,
              !.calculatedFields = FieldsOf(analysisId),
              !.error = Null,
              !.isCalculatedFieldsLoading = FALSE]

\* lines 108-115, 122: both fetches of an awaited refreshData are answered
RefreshResolves ==
    /\ \E r \in inflight :
          /\ r.kind = "refresh"
          /\ inflight' = inflight \ {r}
          /\ \E metadata \in {MetadataOf(r.analysisId), Null} :
                sidebar' = RefreshAnswer(sidebar, r.analysisId, metadata)
    /\ UNCHANGED <<hooks, env>>
    /\ UNCHANGED <<resolverVars, tagVars, trail>>

\* lines 116-123: a fetch of an awaited refreshData fails
RefreshRejects ==
    /\ \E r \in inflight :
          /\ r.kind = "refresh"
          /\ inflight' = inflight \ {r}
    /\ sidebar' = [sidebar EXCEPT !.error = [message |-> "Failed to fetch analysis data."],
                                  !.isCalculatedFieldsLoading = FALSE]
    /\ UNCHANGED <<hooks, env>>
    /\ UNCHANGED <<resolverVars, tagVars, trail>>

\* lines 187-189, 196
TrailResolves ==
    /\ \E r \in inflight :
          /\ r.kind = "trail"
          /\ inflight' = inflight \ {r}
          /\ sidebar' = [sidebar EXCEPT !.cloudTrailEvents = EventsOf(r.analysisId),
                                        !.isChangeHistoryLoaded = TRUE,
                                        !.isChangeHistoryLoading = FALSE]
    /\ UNCHANGED <<hooks, env>>
    /\ UNCHANGED <<resolverVars, tagVars, trail>>

\* lines 190-197
TrailRejects ==
    /\ \E r \in inflight :
          /\ r.kind = "trail"
          /\ inflight' = inflight \ {r}
    /\ sidebar' = [sidebar EXCEPT !.error = [message |-> "Failed to fetch CloudTrail events."],
                                  !.isChangeHistoryLoading = FALSE]
    /\ UNCHANGED <<hooks, env>>
    /\ UNCHANGED <<resolverVars, tagVars, trail>>

\* a second passes
ClockTick ==
    /\ env.now < MaxTime
    /\ env' = [env EXCEPT !.now = @ + 1]
    /\ UNCHANGED <<sidebar, hooks, inflight>>
    /\ UNCHANGED <<resolverVars, tagVars, trail>>

\* lines 238-245 of the Sidebar and 31-36 of the header: the timer is rendered
TimerMounted == sidebar.credentials # Null /\ sidebar.sessionExpiration # Null

\* lines 227-231
handleSessionExpire(s) ==
    [s EXCEPT !.credentials = Null, !.sessionExpiration = Null,
              !.showJsonInput = TRUE]

\* lines 20-29 of the timer: updateTimeLeft, run by the interval and by the
\* timer's effect
TimerTick ==
    /\ TimerMounted
    /\ IF TimeIsLeft(sidebar.sessionExpiration, env.now)
       THEN /\ hooks' = [hooks EXCEPT !.timeLeft = "HH:mm:ss"]
            /\ UNCHANGED sidebar
       ELSE /\ hooks' = [hooks EXCEPT !.timeLeft = "Expired"]
            /\ sidebar' = handleSessionExpire(sidebar)
    /\ UNCHANGED <<env, inflight>>
    /\ UNCHANGED <<resolverVars, tagVars, trail>>

\* lines 260-275: one of the two analysis tabs is rendered
TabRendered == sidebar.credentials # Null /\ sidebar.analysisId # Null

----------------------------------------------------------------------------
(* The tag cache (src/utils/tagEnhancer.tsx) *)

\* most getResourceTags calls awaiting their fetch at one time
MaxTagCalls == 2

\* the rows of the resource list: resource type and resource id
TagResources ==
    {<<"dashboard", <<"r">>>>, <<"dataset", <<"r">>>>, <<"dataset", <<"r", "-", "s">>>>}

\* `${resourceType}-${resourceId}`
CacheKey(resourceType, resourceId) == <<resourceType, "-">> \o resourceId

\* what ListTagsForResource may answer
TagLists == {Array(<< >>), Array(<<[Key |-> "team", Value |-> "a"]>>)}

\* tagCache[cacheKey]
TagCacheGet(cache, cacheKey) ==
    IF cacheKey \in DOMAIN cache THEN cache[cacheKey] ELSE Undefined

\* an array, also an empty one, is truthy; undefined is not
Truthy(value) == value # Undefined

NoCall == [key |-> Null, tags |-> Null, fetched |-> FALSE, firstSinceClear |-> FALSE]

\* `export const tagCache = {}`
TagCacheEmpty ==
    /\ tagCache = << >>
    /\ tagCalls = {}
    /\ tagLast = [call |-> NoCall, cleared |-> FALSE, calledSinceClear |-> {}]

\* lines 23-26: the key is cached and the stored value is returned
getResourceTagsCached ==
    /\ \E resource \in TagResources :
          LET cacheKey == CacheKey(resource[1], resource[2]) IN
          /\ Truthy(TagCacheGet(tagCache, cacheKey))
          /\ tagLast' = [tagLast EXCEPT
                 !.call = [key |-> cacheKey, tags |-> tagCache[cacheKey],
                           fetched |-> FALSE,
                           firstSinceClear |->
                               tagLast.cleared /\ cacheKey \notin tagLast.calledSinceClear],
                 !.calledSinceClear = @ \cup {cacheKey}]
    /\ UNCHANGED <<tagCache, tagCalls>>
    /\ UNCHANGED <<resolverVars, sidebarVars, trail>>

\* lines 23-29: the key is not cached and fetchResourceTags is awaited
getResourceTagsFetches ==
    /\ \E resource \in TagResources :
          LET cacheKey == CacheKey(resource[1], resource[2]) IN
          /\ ~Truthy(TagCacheGet(tagCache, cacheKey))
          /\ tagCalls' = tagCalls \cup
                 {[key |-> cacheKey,
                   firstSinceClear |->
                       tagLast.cleared /\ cacheKey \notin tagLast.calledSinceClear]}
          /\ tagLast' = [tagLast EXCEPT !.calledSinceClear = @ \cup {cacheKey}]
    /\ Cardinality(tagCalls') <= MaxTagCalls
    /\ UNCHANGED tagCache
    /\ UNCHANGED <<resolverVars, sidebarVars, trail>>

\* lines 29-31: the fetch is answered, the tags are stored and returned
TagFetchResolves ==
    /\ \E call \in tagCalls : \E tags \in TagLists :
          /\ tagCache' = (call.key :> tags) @@ tagCache
          /\ tagCalls' = tagCalls \ {call}
          /\ tagLast' = [tagLast EXCEPT
                 !.call = [key |-> call.key, tags |-> tags, fetched |-> TRUE,
                           firstSinceClear |-> call.firstSinceClear]]
    /\ UNCHANGED <<resolverVars, sidebarVars, trail>>

\* line 29: the fetch fails and the call throws
TagFetchRejects ==
    /\ \E call \in tagCalls : tagCalls' = tagCalls \ {call}
    /\ UNCHANGED <<tagCache, tagLast>>
    /\ UNCHANGED <<resolverVars, sidebarVars, trail>>

\* lines 97-99, called by handleRefreshTags
clearTagCache ==
    /\ tagCache' = << >>
    /\ tagLast' = [tagLast EXCEPT !.cleared = TRUE, !.calledSinceClear = {}]
    /\ UNCHANGED tagCalls
    /\ UNCHANGED <<resolverVars, sidebarVars, trail>>

----------------------------------------------------------------------------
(* CloudTrail events (src/utils/cloudTrailUtils.ts) *)

\* most pages CloudTrail holds for one event name
MaxPages == 2

relevantEventNames ==
    <<"CreateAnalysis", "DeleteAnalysis", "UpdateAnalysis", "RestoreAnalysis",
      "CreateDashboard", "UpdateDashboard", "DeleteDashboard",
      "CreateDataSet", "UpdateDataSet", "DeleteDataSet",
      "CreateDataSource", "UpdateDataSource", "DeleteDataSource">>

\* the Events of a page: missing, empty, or one event
PageEvents(eventName, page, kind) ==
    IF kind = "missing" THEN Undefined
    ELSE IF kind = "empty" THEN Array(<< >>)
    ELSE Array(<<[EventName |-> eventName, page |-> page]>>)

\* what CloudTrail does for one event name: the kinds of its pages, and the
\* page whose request fails (0: none) with the name of the error
Script(pages, failAt, errorName) ==
    [pages |-> pages, failAt |-> failAt, errorName |-> errorName]

Scripts ==
    UNION {{Script(pages, failAt, errorName) :
                pages \in [1..n -> {"missing", "empty", "events"}],
                failAt \in 0..n,
                errorName \in {"InvalidSignatureException", "ThrottlingException"}} :
           n \in 1..MaxPages}

\* one page with one event
PlainScript == Script(<<"events">>, 0, "InvalidSignatureException")

TrailLocals(server) ==
    [server |-> server, pc |-> "loop", nameIndex |-> 1, allEvents |-> << >>,
     events |-> << >>, nextToken |-> Undefined, requests |-> << >>,
     threw |-> FALSE, logged |-> FALSE]

\* fetchCloudTrailEvents is not running
TrailIdle ==
    trail = [TrailLocals([k \in DOMAIN relevantEventNames |-> PlainScript])
                EXCEPT !.pc = "idle"]

\* lines 245-247: the loop over the event names starts
TrailInit ==
    \E special \in DOMAIN relevantEventNames : \E script \in Scripts :
        trail = TrailLocals([k \in DOMAIN relevantEventNames |->
                                IF k = special THEN script ELSE PlainScript])

\* the page a request with this NextToken asks for
Token(page) == [token |-> page]

PageOf(nextToken) == IF nextToken = Undefined THEN 1 ELSE nextToken.token

\* the answer to the request for a page: its Events and its NextToken
Response(script, eventName, page) ==
    [Events |-> PageEvents(eventName, page, script.pages[page]),
     NextToken |-> IF page < Len(script.pages) THEN Token(page + 1) ELSE Undefined]

\* lines 249, 264-265: fetchEventsForName is called for the next event name
CallFetchEventsForName ==
    /\ trail.pc = "loop"
    /\ trail.nameIndex <= Len(relevantEventNames)
    /\ trail' = [trail EXCEPT !.pc = "page", !.events = << >>,
                              !.nextToken = Undefined]
    /\ UNCHANGED <<resolverVars, sidebarVars, tagVars>>

\* lines 288-296 and 306-307: the locals after an answer
AfterResponse(t, response) ==
    LET events == IF response.Events # Undefined
                  THEN t.events \o response.Events.array ELSE t.events
        noEvents == response.Events = Undefined \/ Len(response.Events.array) = 0
    IN  [t EXCEPT !.events = events,
                  !.nextToken = response.NextToken,
                  !.pc = IF noEvents /\ response.NextToken = Undefined THEN "return"
                         ELSE IF response.NextToken # Undefined THEN "page"
                         ELSE "return"]

\* lines 267-296, 306-307: a page is requested and answered
LookupResolves ==
    /\ trail.pc = "page"
    /\ LET script == trail.server[trail.nameIndex]
           page == PageOf(trail.nextToken)
       IN  /\ script.failAt # page
           /\ trail' = [AfterResponse(trail, Response(script,
                                          relevantEventNames[trail.nameIndex], page))
                           EXCEPT !.requests = Append(@, <<trail.nameIndex, page>>)]
    /\ UNCHANGED <<resolverVars, sidebarVars, tagVars>>

\* variant: the error is thrown to the caller, whose catch goes on with the
\* next event name
AfterErrorThrown(t, errorName) ==
    [t EXCEPT !.threw = TRUE,
              !.events = << >>,
              !.pc = "return"]

\* lines 297-304: the error is logged when it is a signature error, and the
\* loop is left
AfterError(t, errorName) ==
    [t EXCEPT !.logged = @ \/ errorName = "InvalidSignatureException",
              !.pc = "return"]

\* lines 267-287, 297-304: a page is requested and the request fails
LookupRejects ==
    /\ trail.pc = "page"
    /\ LET script == trail.server[trail.nameIndex]
           page == PageOf(trail.nextToken)
       IN  /\ script.failAt = page
           /\ trail' = [AfterError(trail, script.errorName)
                           EXCEPT !.requests = Append(@, <<trail.nameIndex, page>>)]
    /\ UNCHANGED <<resolverVars, sidebarVars, tagVars>>

\* lines 309 and 250: the events are returned and pushed, the loop goes on
ReturnEvents ==
    /\ trail.pc = "return"
    /\ trail' = [trail EXCEPT !.allEvents = @ \o trail.events,
                              !.nameIndex = @ + 1,
                              !.pc = IF trail.nameIndex = Len(relevantEventNames)
                                     THEN "done" ELSE "loop"]
    /\ UNCHANGED <<resolverVars, sidebarVars, tagVars>>

----------------------------------------------------------------------------
(* The resolver at rest, for the behaviours of the other components *)

ResolverIdle ==
    /\ expression = CycleInput.target
    /\ calculatedFields = CycleInput.fields
    /\ chain = << >>
    /\ parent = << >>
    /\ visited = {}
    /\ fieldMap = EmptyMap
    /\ stack = << >>
    /\ pc = "init"
    /\ outcome = "none"
    /\ warned = FALSE
    /\ history = << >>

SidebarInit == ResolverIdle /\ SidebarMounted /\ TagCacheEmpty /\ TrailIdle

SidebarNext ==
    \/ handleCredentialsReceived
    \/ FlushEffects
    \/ Navigate
    \/ PollTick
    \/ RefreshResolves
    \/ RefreshRejects
    \/ TrailResolves
    \/ TrailRejects
    \/ ClockTick
    \/ TimerTick

SidebarSpec == SidebarInit /\ [][SidebarNext]_vars

TagInit == ResolverIdle /\ SidebarMounted /\ TagCacheEmpty /\ TrailIdle

TagNext ==
    \/ getResourceTagsCached
    \/ getResourceTagsFetches
    \/ TagFetchResolves
    \/ TagFetchRejects
    \/ clearTagCache

TagSpec == TagInit /\ [][TagNext]_vars

TrailSpecInit == ResolverIdle /\ SidebarMounted /\ TagCacheEmpty /\ TrailInit

TrailNext ==
    \/ CallFetchEventsForName
    \/ LookupResolves
    \/ LookupRejects
    \/ ReturnEvents

TrailSpec == TrailSpecInit /\ [][TrailNext]_vars

----------------------------------------------------------------------------
(* The call getDependencyChain(expression, calculatedFields) *)

Init ==
    /\ \E in \in Inputs :
          /\ expression = in.target
          /\ calculatedFields = in.fields
    /\ chain = << >>
    /\ parent = << >>
    /\ visited = {}
    /\ fieldMap = EmptyMap
    /\ stack = << >>
    /\ pc = "init"
    /\ outcome = "none"
    /\ warned = FALSE
    /\ history = << >>
    /\ SidebarMounted
    /\ TagCacheEmpty
    /\ TrailIdle

\* variant: the traversal starts from the map's record of the selected name
CallThroughMap ==
    /\ pc = "init"
    /\ chain' = <<TargetEntry(expression)>>
    /\ parent' = <<0>>
    /\ visited' = InitialVisited(expression)
    /\ fieldMap' = BuildFieldMap(calculatedFields, Len(calculatedFields))
    /\ stack' = PushFrame(<< >>,
                   Frame(IF MapHas(fieldMap', expression.name)
                         THEN MapGet(fieldMap', expression.name)
                         ELSE Field(expression.name, << >>), 0, 1))
    /\ pc' = "running"
    /\ UNCHANGED <<expression, calculatedFields, outcome, warned>>
    /\ UNCHANGED history
    /\ UNCHANGED <<sidebarVars, tagVars, trail>>

\* lines 62-82 and the call of line 120
Call ==
    /\ pc = "init"
    /\ chain' = <<TargetEntry(expression)>>
    /\ parent' = <<0>>
    /\ visited' = InitialVisited(expression)
    /\ fieldMap' = BuildFieldMap(calculatedFields, Len(calculatedFields))
    /\ stack' = PushFrame(<< >>, Frame(expression, 0, 1))
    /\ pc' = "running"
    /\ UNCHANGED <<expression, calculatedFields, outcome, warned>>
    /\ UNCHANGED history
    /\ UNCHANGED <<sidebarVars, tagVars, trail>>

\* lines 90-96: the depth limit is hit; warn and return
DepthLimit ==
    /\ pc = "running"
    /\ stack # << >>
    /\ Top.phase = "entry"
    /\ DepthExceeded(Top.level)
    /\ warned' = TRUE
    /\ stack' = PopFrame(stack)
    /\ UNCHANGED <<expression, calculatedFields, chain, parent, visited, fieldMap, pc,
                   outcome>>
    /\ UNCHANGED history
    /\ UNCHANGED <<sidebarVars, tagVars, trail>>

\* line 99: tokens = extractTokens(currentField.expression)
Tokenize ==
    /\ pc = "running"
    /\ stack # << >>
    /\ Top.phase = "entry"
    /\ ~DepthExceeded(Top.level)
    /\ stack' = ReplaceTop(stack,
                   [Top EXCEPT !.phase = "loop",
                               !.tokens = extractTokens(Top.currentField.expression)])
    /\ UNCHANGED <<expression, calculatedFields, chain, parent, visited, fieldMap, pc,
                   outcome, warned>>
    /\ UNCHANGED history
    /\ UNCHANGED <<sidebarVars, tagVars, trail>>

\* lines 101-116, condition true: push the entry, mark it, recurse
AppendDependency ==
    /\ pc = "running"
    /\ stack # << >>
    /\ Top.phase = "loop"
    /\ Top.i <= Len(Top.tokens)
    /\ IsNewDependency(fieldMap, visited, CurrentToken(Top))
    /\ LET dependentField == MapGet(fieldMap, CurrentToken(Top))
       IN  IF dependentField = Undefined
           THEN \* reading .name of undefined is a TypeError
                /\ pc' = "done"
                /\ outcome' = "threw"
                /\ stack' = << >>
                /\ UNCHANGED <<chain, parent, visited>>
           ELSE /\ chain' = Append(chain, ChainEntry(dependentField, Top.level + 1))
                /\ parent' = Append(parent, Top.pos)
                /\ visited' = visited \cup {dependentField.name}
                /\ stack' = PushFrame(ReplaceTop(stack, NextToken(Top)),
                                      Frame(dependentField, Top.level + 1,
                                            Len(chain) + 1))
                /\ UNCHANGED <<pc, outcome>>
    /\ UNCHANGED <<expression, calculatedFields, fieldMap, warned>>
    /\ UNCHANGED history
    /\ UNCHANGED <<sidebarVars, tagVars, trail>>

\* variant: a visited field reached again at a smaller depth is moved there
SkipTokenRelevel ==
    /\ pc = "running"
    /\ stack # << >>
    /\ Top.phase = "loop"
    /\ Top.i <= Len(Top.tokens)
    /\ ~IsNewDependency(fieldMap, visited, CurrentToken(Top))
    /\ stack' = ReplaceTop(stack, NextToken(Top))
    /\ chain' = [j \in DOMAIN chain |->
                    IF /\ j > 1
                       /\ chain[j].alias = CurrentToken(Top)
                       /\ chain[j].level > Top.level + 1
                    THEN [chain[j] EXCEPT !.level = Top.level + 1]
                    ELSE chain[j]]
    /\ UNCHANGED <<expression, calculatedFields, parent, visited, fieldMap, pc,
                   outcome, warned>>
    /\ UNCHANGED history
    /\ UNCHANGED <<sidebarVars, tagVars, trail>>

\* lines 101-117, condition false: nothing happens for this token
SkipToken ==
    /\ pc = "running"
    /\ stack # << >>
    /\ Top.phase = "loop"
    /\ Top.i <= Len(Top.tokens)
    /\ ~IsNewDependency(fieldMap, visited, CurrentToken(Top))
    /\ stack' = ReplaceTop(stack, NextToken(Top))
    /\ UNCHANGED <<expression, calculatedFields, chain, parent, visited, fieldMap, pc,
                   outcome, warned>>
    /\ UNCHANGED history
    /\ UNCHANGED <<sidebarVars, tagVars, trail>>

\* line 118: the forEach is over, findDependencies returns
Return ==
    /\ pc = "running"
    /\ stack # << >>
    /\ Top.phase = "loop"
    /\ Top.i > Len(Top.tokens)
    /\ stack' = PopFrame(stack)
    /\ UNCHANGED <<expression, calculatedFields, chain, parent, visited, fieldMap, pc,
                   outcome, warned>>
    /\ UNCHANGED history
    /\ UNCHANGED <<sidebarVars, tagVars, trail>>

\* line 122: return chain
ReturnChain ==
    /\ pc = "running"
    /\ stack = << >>
    /\ pc' = "done"
    /\ outcome' = "returned"
    /\ UNCHANGED <<expression, calculatedFields, chain, parent, visited, fieldMap, stack,
                   warned>>
    /\ history' = Append(history, [target |-> expression,
                                    fields |-> calculatedFields,
                                    chain |-> chain])
    /\ UNCHANGED <<sidebarVars, tagVars, trail>>

\* variant: the visited set outlives the call
NewVisitedShared(previous, field) == previous \cup InitialVisited(field)

\* lines 69 and 78: every call creates its own visited set
NewVisited(previous, field) == InitialVisited(field)

\* a later call, with any arguments: lines 62-82 and the call of line 120
CallAgain ==
    /\ pc = "done"
    /\ outcome = "returned"
    /\ Len(history) < MaxCalls
    /\ \E in \in SessionInputs :
          /\ expression' = in.target
          /\ calculatedFields' = in.fields
    /\ chain' = <<TargetEntry(expression')>>
    /\ parent' = <<0>>
    /\ visited' = NewVisited(visited, expression')
    /\ fieldMap' = BuildFieldMap(calculatedFields', Len(calculatedFields'))
    /\ stack' = PushFrame(<< >>, Frame(expression', 0, 1))
    /\ pc' = "running"
    /\ outcome' = "none"
    /\ warned' = FALSE
    /\ UNCHANGED history
    /\ UNCHANGED <<sidebarVars, tagVars, trail>>

Next ==
    \/ Call
    \/ DepthLimit
    \/ Tokenize
    \/ AppendDependency
    \/ SkipToken
    \/ Return
    \/ ReturnChain

Spec == Init /\ [][Next]_vars

\* the call is synchronous and runs to completion
FairSpec == Spec /\ WF_vars(Next)

\* several calls, one after the other
SessionInit == Init /\ \E in \in SessionInputs : expression = in.target /\ calculatedFields = in.fields

SessionNext ==
    \/ Next
    \/ CallAgain

SessionSpec == SessionInit /\ [][SessionNext]_vars

----------------------------------------------------------------------------
(* Properties of getDependencyChain *)

Range(seq) == {seq[k] : k \in DOMAIN seq}

Aliases == {chain[j].alias : j \in DOMAIN chain}

FieldNameSet == {calculatedFields[k].name : k \in DOMAIN calculatedFields}

\* the tokens of the expression carried by chain entry j
TokensOfEntry(j) == extractTokens(chain[j].expression)

\* index of the first occurrence of x in seq (0 when absent)
FirstIndex(seq, x) ==
    IF x \in Range(seq)
    THEN CHOOSE k \in DOMAIN seq : seq[k] = x /\ \A m \in 1..(k - 1) : seq[m] # x
    ELSE 0

\* entry j was appended during the expansion of entry p
RECURSIVE AppendedUnder(_, _)
AppendedUnder(j, p) ==
    /\ j > p
    /\ j > 1
    /\ (parent[j] = p \/ AppendedUnder(parent[j], p))

Returned == pc = "done" /\ outcome = "returned"

CalledWith(in) == expression = in.target /\ calculatedFields = in.fields

\* C1: once the call has started, and in the returned chain, the chain is
\* non-empty and its first entry is the target: alias = expression.name, level 0.
C1_FirstEntryIsTarget ==
    pc # "init" =>
        /\ Len(chain) >= 1
        /\ chain[1].alias = expression.name
        /\ chain[1].level = 0

C1_Witness == Returned /\ Len(chain) >= 3

\* C2: at every point of the traversal and in the result, no two chain
\* entries have the same alias.
C2_NoDuplicateAlias ==
    \A j, k \in DOMAIN chain : j # k => chain[j].alias # chain[k].alias

\* a returned chain in which two entries reference the same third entry and
\* some entry references the target, whose name is in calculatedFields
C2_Witness ==
    /\ Returned
    /\ expression.name \in FieldNameSet
    /\ \E j, k, m \in DOMAIN chain :
          /\ j # k /\ m # j /\ m # k /\ m > 1
          /\ chain[m].alias \in Range(TokensOfEntry(j))
          /\ chain[m].alias \in Range(TokensOfEntry(k))
    /\ \E j \in DOMAIN chain : j > 1 /\ expression.name \in Range(TokensOfEntry(j))

\* C3: every call terminates, on every input (reference cycles of any
\* length and self-references included).
C3_Terminates == <>(pc = "done")

\* a finished call whose input has a self-reference of the target and a
\* reference cycle of length three through it
C3_Witness ==
    /\ pc = "done"
    /\ expression.name \in Range(TokensOfEntry(1))
    /\ Len(chain) >= 3
    /\ parent[2] = 1 /\ parent[3] = 2
    /\ expression.name \in Range(TokensOfEntry(3))

\* C4: the target is never emitted a second time, and resolving A from
\* [A = `B`, B = `A`] returns exactly [A at level 0, B at level 1].
C4_CycleSafety ==
    /\ \A j \in DOMAIN chain : j > 1 => chain[j].alias # expression.name
    /\ (Returned /\ CalledWith(CycleInput)) =>
          chain = << ChainEntry(CycleFields[1], 0), ChainEntry(CycleFields[2], 1) >>

C4_Witness == Returned /\ CalledWith(CycleInput) /\ Len(chain) = 2

\* C5: depth-first pre-order: all entries between an entry p and any entry
\* appended during p's expansion were themselves appended during p's
\* expansion (p's descendants directly follow p, before p's next sibling);
\* A = `B + C`, B = `D` resolves to [A(0), B(1), D(2), C(1)].
C5_DepthFirstPreOrder ==
    /\ \A j \in DOMAIN chain : j > 1 =>
          /\ parent[j] \in 1..(j - 1)
          /\ chain[j].level = chain[parent[j]].level + 1
          /\ \A k \in (parent[j] + 1)..j : AppendedUnder(k, parent[j])
    /\ (Returned /\ CalledWith(DepthFirstInput)) =>
          chain = << ChainEntry(DepthFirstFields[1], 0),
                     ChainEntry(DepthFirstFields[2], 1),
                     ChainEntry(DepthFirstFields[4], 2),
                     ChainEntry(DepthFirstFields[3], 1) >>

\* a returned chain where an entry with a descendant is followed by a sibling
C5_Witness ==
    /\ Returned
    /\ \E j, k, m \in DOMAIN chain :
          /\ j < k /\ k < m
          /\ parent[k] = j
          /\ parent[m] = parent[j]

\* C6: the entries appended by one expansion are in the order in which their
\* names first occur among the tokens of the expanded expression;
\* `revenue_total + tax` resolves to [self(0), revenue_total(1), tax(1)].
C6_LeftToRightDiscovery ==
    /\ \A j, k \in DOMAIN chain :
          (1 < j /\ j < k /\ parent[j] = parent[k]) =>
              /\ FirstIndex(TokensOfEntry(parent[j]), chain[j].alias) > 0
              /\ FirstIndex(TokensOfEntry(parent[j]), chain[j].alias)
                    < FirstIndex(TokensOfEntry(parent[k]), chain[k].alias)
    /\ (Returned /\ CalledWith(BoundaryInput)) =>
          chain = << ChainEntry(BoundaryTarget, 0),
                     ChainEntry(Field(RevenueTotalName, << >>), 1),
                     ChainEntry(Field(TaxName, << >>), 1) >>

C6_Witness == Returned /\ CalledWith(BoundaryInput) /\ Len(chain) = 3
----------------------------------------------------------------------------
(* Quoted literals *)

QuoteChars == {"'", "\""}

\* number of occurrences of char among the first n characters of expr
CountChar(expr, char, n) == Cardinality({k \in 1..n : expr[k] = char})

\* expr has literals of one kind only, delimited by quote, and all are closed
BalancedIn(expr, quote) ==
    /\ quote \in QuoteChars
    /\ \A k \in DOMAIN expr : expr[k] \in QuoteChars => expr[k] = quote
    /\ CountChar(expr, quote, Len(expr)) > 0
    /\ CountChar(expr, quote, Len(expr)) % 2 = 0

\* the positions at which name occurs in expr as a substring
Occurrences(expr, name) ==
    {k \in 1..(Len(expr) + 1 - Len(name)) :
        SubSeq(expr, k, k + Len(name) - 1) = name}

\* the occurrence of name at position k lies inside a literal of expr
InsideLiteral(expr, quote, name, k) ==
    /\ CountChar(expr, quote, k - 1) % 2 = 1
    /\ \A m \in k..(k + Len(name) - 1) : expr[m] # quote

\* name occurs in expr, and only inside balanced quoted literals
OnlyInsideLiterals(expr, name) ==
    /\ Len(name) > 0
    /\ Occurrences(expr, name) # {}
    /\ \E quote \in QuoteChars :
          /\ BalancedIn(expr, quote)
          /\ \A k \in Occurrences(expr, name) : InsideLiteral(expr, quote, name, k)

\* expr without its literals (the quotes and what they enclose)
OutsideLiterals(expr) ==
    LET quote == CHOOSE q \in QuoteChars : BalancedIn(expr, q)
        keep == {k \in DOMAIN expr :
                    expr[k] # quote /\ CountChar(expr, quote, k - 1) % 2 = 0}
        nth(j) == CHOOSE k \in keep : Cardinality({m \in keep : m < k}) = j - 1
    IN  [j \in 1..Cardinality(keep) |-> expr[nth(j)]]

\* the expansion of chain entry p appended an entry for name
HasEdge(p, name) ==
    \E j \in DOMAIN chain : j > 1 /\ parent[j] = p /\ chain[j].alias = name

\* C7 as stated: a field name that occurs in an expression only inside
\* balanced quoted literals creates no dependency edge from that expression.
C7_LiteralNeverCreatesEdge ==
    \A p \in DOMAIN chain : \A name \in FieldNameSet :
        OnlyInsideLiterals(chain[p].expression, name) => ~HasEdge(p, name)

\* C7 (amended): a field name that occurs in an expression only inside
\* balanced quoted literals creates no dependency edge from that expression,
\* unless the characters left outside the literals join into a token equal to
\* the name; `ifelse(status = 'Active', revenue, 0)` resolves to
\* [self(0), status(1), revenue(1)], without Active.
C7_LiteralExcluded ==
    /\ \A p \in DOMAIN chain : \A name \in FieldNameSet :
          (/\ OnlyInsideLiterals(chain[p].expression, name)
           /\ name \notin Range(extractTokens(OutsideLiterals(chain[p].expression))))
              => ~HasEdge(p, name)
    /\ (Returned /\ CalledWith(LiteralInput)) =>
          /\ ActiveName \notin Aliases
          /\ chain = << ChainEntry(LiteralTarget, 0),
                        ChainEntry(Field(StatusName, << >>), 1),
                        ChainEntry(Field(RevenueName, << >>), 1) >>

C7_Witness ==
    /\ Returned
    /\ CalledWith(LiteralInput)
    /\ OnlyInsideLiterals(expression.expression, ActiveName)
    /\ ActiveName \in FieldNameSet

\* C8: when no token of the target's expression is the name of a field of
\* calculatedFields other than the target's own name, the returned chain has
\* exactly one entry.
C8_NoDependencySingleEntry ==
    (/\ Returned
     /\ \A token \in Range(extractTokens(expression.expression)) :
           token \in FieldNameSet => token = expression.name)
        => Len(chain) = 1

\* such a call whose expression names the target itself and a non-field
C8_Witness ==
    /\ Returned
    /\ Len(chain) = 1
    /\ expression.name \in Range(extractTokens(expression.expression))
    /\ \E token \in Range(extractTokens(expression.expression)) :
          token \notin FieldNameSet

\* C9: an activation above level MaxDepth expands nothing (it never reaches
\* the token loop, and no entry has a parent above level MaxDepth); the linear
\* chain resolved from F0 returns without the fields that only an expansion
\* above level MaxDepth would discover.
C9_DepthBound ==
    /\ \A k \in DOMAIN stack : stack[k].phase = "loop" => stack[k].level <= MaxDepth
    /\ \A j \in DOMAIN chain : j > 1 => chain[parent[j]].level <= MaxDepth
    /\ (Returned /\ CalledWith(LinearInput)) =>
          \A k \in (MaxDepth + 2)..ChainLast : LinearName(k) \notin Aliases

C9_Witness ==
    /\ Returned
    /\ CalledWith(LinearInput)
    /\ warned
    /\ LinearName(MaxDepth + 1) \in Aliases

\* C10: the call has no error outcome: it never throws, what it hands back
\* is the chain, and a hit of the depth limit (a warning only) changes
\* neither.
C10_NoErrorOutcome ==
    /\ outcome # "threw"
    /\ pc = "done" => (outcome = "returned" /\ Len(chain) >= 1)
    /\ pc # "done" => outcome = "none"

\* returned calls with the depth limit hit, an empty expression, an
\* unclosed quote
C10_Witness ==
    /\ Returned
    /\ \/ warned
       \/ expression.expression = << >>
       \/ \E quote \in QuoteChars :
             CountChar(expression.expression, quote, Len(expression.expression)) = 1
----------------------------------------------------------------------------
(* Caller-supplied targets, levels, completeness *)

\* the names of FieldNameSet among the tokens of the selected expression
TargetReferences ==
    {token \in Range(extractTokens(expression.expression)) : token \in FieldNameSet}

\* C11: a target whose name is no key of the lookup map is accepted: the
\* chain starts with the caller's record at level 0, and its expression is
\* scanned: every token of it that names a field is in the returned chain,
\* the first such token as the second entry, at level 1.
C11_OutsideTargetAccepted ==
    (Returned /\ expression.name \notin FieldNameSet) =>
        /\ chain[1] = ChainEntry(expression, 0)
        /\ TargetReferences \subseteq Aliases
        /\ TargetReferences # {} =>
              /\ chain[2].level = 1
              /\ FirstIndex(extractTokens(expression.expression), chain[2].alias)
                    = Min({FirstIndex(extractTokens(expression.expression), name) :
                              name \in TargetReferences})
        /\ TargetReferences = {} => Len(chain) = 1

C11_Witness ==
    /\ Returned
    /\ expression.name \notin FieldNameSet
    /\ Cardinality(TargetReferences) >= 2
    /\ Len(chain) >= 3

\* C12: first visit wins: an entry is appended at the depth of the path
\* being expanded (the number of active expansions) and no step ever changes
\* an entry already in the chain; a = `b c`, b = `c` resolves to
\* [a(0), b(1), c(2)].
C12_FirstVisitWins ==
    [][/\ \A j \in DOMAIN chain : j \in DOMAIN chain' /\ chain'[j] = chain[j]
       /\ (pc = "running" /\ chain' # chain) =>
             /\ Len(chain') = Len(chain) + 1
             /\ chain'[Len(chain')].level = Len(stack)
       /\ (Returned /\ CalledWith(FirstVisitInput))' =>
             chain' = << ChainEntry(FirstVisitFields[1], 0),
                         ChainEntry(FirstVisitFields[2], 1),
                         ChainEntry(FirstVisitFields[3], 2) >>]_vars

\* a returned chain with an entry at level 2 that the target references
C12_Witness ==
    /\ Returned
    /\ \E j \in DOMAIN chain :
          /\ chain[j].level = 2
          /\ chain[j].alias \in Range(TokensOfEntry(1))

\* the keys of the lookup map among the tokens of expr
ReferencesOf(expr) == {token \in Range(extractTokens(expr)) : MapHas(fieldMap, token)}

\* names and everything reachable from them along the references of the
\* map's records, not following the references of the names in `closed`
RECURSIVE ReachableFrom(_, _)
ReachableFrom(names, closed) ==
    LET more == names \cup UNION {ReferencesOf(MapGet(fieldMap, name).expression) :
                                    name \in names \ closed}
    IN  IF more = names THEN names ELSE ReachableFrom(more, closed)

\* C13 as stated: with at most MaxDepth records, the aliases of the result
\* are the target's name and every name reachable from the target's expression
\* along the references of the map's records.
C13_TransitiveCompleteness ==
    (Returned /\ Len(calculatedFields) <= MaxDepth) =>
        Aliases = {expression.name}
                    \cup ReachableFrom(ReferencesOf(expression.expression), {})

\* C13 (amended): with at most MaxDepth records, the aliases of the result
\* are the target's name and every name reachable from the target's expression
\* along the references of the map's records, where the references of the
\* map's record of the target's own name (never expanded) are not followed.
C13_CompletenessExceptTargetName ==
    (Returned /\ Len(calculatedFields) <= MaxDepth) =>
        Aliases = {expression.name}
                    \cup ReachableFrom(ReferencesOf(expression.expression),
                                       {expression.name})

\* returned calls with MaxDepth records in one chain, and with a name
\* reachable along two paths
C13_Witness ==
    /\ Returned
    /\ Len(calculatedFields) <= MaxDepth
    /\ \/ Len(chain) = MaxDepth + 1
       \/ \E j \in DOMAIN chain :
             /\ chain[j].level = 2
             /\ chain[j].alias \in ReferencesOf(expression.expression)

----------------------------------------------------------------------------
(* Calls made one after the other *)

\* C14: the chain a call returns depends on its two arguments only: calls
\* with equal arguments return equal chains, whatever calls were made before.
C14_NoStateAcrossCalls ==
    \A j, k \in DOMAIN history :
        (history[j].target = history[k].target /\ history[j].fields = history[k].fields)
            => history[j].chain = history[k].chain

\* a first and a third call with equal arguments around a call with others
\* that share a name with them
C14_Witness ==
    /\ Len(history) >= 3
    /\ history[1].target = history[3].target
    /\ history[1].fields = history[3].fields
    /\ history[2].fields # history[1].fields
    /\ Len(history[3].chain) >= 2
    /\ \E j \in DOMAIN history[2].chain :
          history[2].chain[j].alias = history[3].chain[2].alias

----------------------------------------------------------------------------
(* The tokens of an expression *)

\* an activation of findDependencies that has tokenized its expression
Tokenized == pc = "running" /\ stack # << >> /\ Top.phase = "loop"

\* the characters [A-Za-z0-9_-]
WordOrHyphen ==
    {"a", "b", "c", "d", "e", "f", "g", "h", "i", "j", "k", "l", "m", "n", "o",
     "p", "q", "r", "s", "t", "u", "v", "w", "x", "y", "z",
     "A", "B", "C", "D", "E", "F", "G", "H", "I", "J", "K", "L", "M", "N", "O",
     "P", "Q", "R", "S", "T", "U", "V", "W", "X", "Y", "Z",
     "0", "1", "2", "3", "4", "5", "6", "7", "8", "9", "_", "-"}

NoQuote == "none"

\* the quote that opened the region the scan is in after n characters of
\* expr, NoQuote outside quoted regions: a region is opened by a quote met
\* outside any region and closed by the next quote of the same kind
QuoteAfter(open, char) ==
    IF open = NoQuote
    THEN IF char \in QuoteChars THEN char ELSE NoQuote
    ELSE IF char = open THEN NoQuote ELSE open

RECURSIVE OpenQuote(_, _)
OpenQuote(expr, n) ==
    IF n = 0 THEN NoQuote
    ELSE CHOOSE next \in {QuoteAfter(open, expr[n]) :
                             open \in {OpenQuote(expr, n - 1)}} : TRUE

\* position k of expr is a delimiting quote or lies inside a quoted region
Hidden(expr, k) == OpenQuote(expr, k - 1) # NoQuote \/ expr[k] \in QuoteChars

\* the elements of text at the positions keep, in order
Restrict(text, keep) ==
    LET nth(j) == CHOOSE k \in keep : Cardinality({m \in keep : m < k}) = j - 1
    IN  [j \in 1..Cardinality(keep) |-> text[nth(j)]]

\* expr without its quoted regions and their quotes
Visible(expr) == Restrict(expr, {k \in DOMAIN expr : ~Hidden(expr, k)})

\* expr with every hidden character replaced by a separator
Masked(expr) == [k \in DOMAIN expr |-> IF Hidden(expr, k) THEN " " ELSE expr[k]]

\* the positions of text at which a maximal run of token characters starts
RunStarts(text) ==
    {p \in DOMAIN text :
        text[p] \in WordOrHyphen /\ (p = 1 \/ text[p - 1] \notin WordOrHyphen)}

\* the last position of the run that starts at p
RunEnd(text, p) ==
    CHOOSE q \in p..Len(text) :
        /\ \A m \in p..q : text[m] \in WordOrHyphen
        /\ (q = Len(text) \/ text[q + 1] \notin WordOrHyphen)

\* the maximal runs of token characters of text, from left to right
MaximalRuns(text) ==
    LET starts == RunStarts(text)
        nth(j) == CHOOSE p \in starts : Cardinality({m \in starts : m < p}) = j - 1
    IN  [j \in 1..Cardinality(starts) |-> SubSeq(text, nth(j), RunEnd(text, nth(j)))]

\* C15 as stated: the tokens are the maximal runs of token characters of the
\* expression outside quoted regions, each a contiguous substring of the
\* expression bounded by non-token characters or the string ends.
C15_RunsOfTheExpression ==
    Tokenized => Top.tokens = MaximalRuns(Masked(Top.currentField.expression))

\* C15 amended: the tokens are, from left to right, the maximal runs of
\* characters of [A-Za-z0-9_-] of the text that is left when the quoted
\* regions and their quotes are taken out of the expression; every token is
\* non-empty and made of those characters only, and `a-b` is one token.
C15_RunsOfTheVisibleText ==
    Tokenized =>
        /\ Top.tokens = MaximalRuns(Visible(Top.currentField.expression))
        /\ \A j \in DOMAIN Top.tokens :
              /\ Len(Top.tokens[j]) > 0
              /\ Range(Top.tokens[j]) \subseteq WordOrHyphen
        /\ Top.currentField.expression = <<"a", "-", "b">>
              => Top.tokens = << <<"a", "-", "b">> >>

\* a token with a hyphen in it that is no substring of its expression
C15_Witness ==
    /\ Tokenized
    /\ \E j \in DOMAIN Top.tokens :
          /\ "-" \in Range(Top.tokens[j])
          /\ Len(Top.tokens[j]) >= 2
          /\ Occurrences(Top.currentField.expression, Top.tokens[j]) = {}

\* the loop variables of extractTokens after n characters of the expression
\* of the activation on top
Scan(n) == ScanPrefix(Top.currentField.expression, n)

\* C16: a single quote toggles the single-quote state exactly when the
\* double-quote state is off, a double quote toggles the double-quote state
\* exactly when the single-quote state is off, nothing else changes the two
\* states and they are never both on; a quote of the other kind inside a
\* quoted region opens and closes nothing: `"it's" x` has the token x.
C16_QuoteStatesIndependent ==
    /\ Tokenized =>
          \A n \in DOMAIN Top.currentField.expression :
              LET char == Top.currentField.expression[n] IN
              /\ ~(Scan(n).inSingleQuote /\ Scan(n).inDoubleQuote)
              /\ (Scan(n).inSingleQuote # Scan(n - 1).inSingleQuote)
                    <=> (char = "'" /\ ~Scan(n - 1).inDoubleQuote)
              /\ (Scan(n).inDoubleQuote # Scan(n - 1).inDoubleQuote)
                    <=> (char = "\"" /\ ~Scan(n - 1).inSingleQuote)
              /\ Scan(n).inSingleQuote <=> OpenQuote(Top.currentField.expression, n) = "'"
              /\ Scan(n).inDoubleQuote <=> OpenQuote(Top.currentField.expression, n) = "\""
    /\ (Tokenized /\ Top.currentField = MixedQuoteTarget) => Top.tokens = << <<"x">> >>
    /\ (Returned /\ CalledWith(MixedQuoteInput)) =>
          chain = <<ChainEntry(MixedQuoteTarget, 0), ChainEntry(Field(<<"x">>, << >>), 1)>>

\* a quoted region with a quote of the other kind in it, closed, and a token
\* after it
C16_Witness ==
    /\ Tokenized
    /\ \E n \in DOMAIN Top.currentField.expression :
          /\ Top.currentField.expression[n] \in QuoteChars
          /\ OpenQuote(Top.currentField.expression, n - 1)
                \notin {NoQuote, Top.currentField.expression[n]}
          /\ \E m \in (n + 1)..Len(Top.currentField.expression) :
                /\ OpenQuote(Top.currentField.expression, m) = NoQuote
                /\ Len(Scan(m).token) > 0

\* C17: a quote or a quoted character changes neither the token in progress
\* nor the tokens emitted so far, so the token characters before the opening
\* quote and after the closing quote are joined: `ab'x'cd` has the one token
\* abcd, which matches the field named abcd.
C17_QuotesAreASink ==
    /\ Tokenized =>
          \A n \in DOMAIN Top.currentField.expression :
              Hidden(Top.currentField.expression, n) =>
                  /\ Scan(n).token = Scan(n - 1).token
                  /\ Scan(n).tokens = Scan(n - 1).tokens
    /\ (Tokenized /\ Top.currentField = SinkTarget) =>
          Top.tokens = << <<"a", "b", "c", "d">> >>
    /\ (Returned /\ CalledWith(SinkInput)) =>
          chain = <<ChainEntry(SinkTarget, 0),
                    ChainEntry(Field(<<"a", "b", "c", "d">>, << >>), 1)>>

\* a token joined over a quoted region is the name of a field and got its
\* entry
C17_Witness ==
    /\ Tokenized
    /\ Top.i > 1
    /\ Occurrences(Top.currentField.expression, Top.tokens[1]) = {}
    /\ HasEdge(Top.pos, Top.tokens[1])

\* the position of the quote of expr that is never closed
StrayQuote(expr) ==
    CHOOSE q \in DOMAIN expr :
        /\ OpenQuote(expr, q - 1) = NoQuote
        /\ \A m \in q..Len(expr) : OpenQuote(expr, m) # NoQuote

\* the tokens of the part of expr before its stray quote
TokensBeforeStrayQuote(expr) ==
    MaximalRuns(Visible(SubSeq(expr, 1, StrayQuote(expr) - 1)))

\* C18: when a quote of the expression is never closed, the tokens are those
\* of the text before that quote, the token in progress at the quote
\* included, and no field named only after the quote becomes a dependency.
C18_UnbalancedQuote ==
    /\ (Tokenized /\ OpenQuote(Top.currentField.expression,
                               Len(Top.currentField.expression)) # NoQuote) =>
          Top.tokens = TokensBeforeStrayQuote(Top.currentField.expression)
    /\ \A p \in DOMAIN chain :
          OpenQuote(chain[p].expression, Len(chain[p].expression)) # NoQuote =>
              \A name \in FieldNameSet :
                  HasEdge(p, name) =>
                      name \in Range(TokensBeforeStrayQuote(chain[p].expression))

\* a token in progress at the stray quote is emitted and is a dependency,
\* while the name of a field after the quote is not
C18_Witness ==
    /\ Tokenized
    /\ Top.i > Len(Top.tokens)
    /\ OpenQuote(Top.currentField.expression, Len(Top.currentField.expression)) # NoQuote
    /\ LET expr == Top.currentField.expression
           q == StrayQuote(expr)
       IN  /\ q > 1
           /\ expr[q - 1] \in WordOrHyphen
           /\ HasEdge(Top.pos, Top.tokens[Len(Top.tokens)])
           /\ \E name \in FieldNameSet :
                 /\ Len(name) > 0
                 /\ \E k \in Occurrences(expr, name) : k > q
                 /\ ~HasEdge(Top.pos, name)

\* the runs of the visible text of expr that spell word
RunsSpelling(expr, word) ==
    {p \in RunStarts(Visible(expr)) :
        SubSeq(Visible(expr), p, RunEnd(Visible(expr), p)) = word}

\* C19: a word is emitted as many times as it occurs outside quotes (`a a`
\* has the tokens a, a), and a name repeated in one expression still has a
\* single chain entry.
C19_NoDeduplication ==
    /\ Tokenized =>
          /\ Len(Top.tokens) = Cardinality(RunStarts(Visible(Top.currentField.expression)))
          /\ \A word \in Range(Top.tokens) :
                Cardinality({j \in DOMAIN Top.tokens : Top.tokens[j] = word})
                    = Cardinality(RunsSpelling(Top.currentField.expression, word))
          /\ Top.currentField.expression = <<"a", " ", "a">>
                => Top.tokens = << <<"a">>, <<"a">> >>
    /\ \A p \in DOMAIN chain : \A name \in FieldNameSet :
          Cardinality({j \in DOMAIN chain : j > 1 /\ parent[j] = p /\ chain[j].alias = name}) <= 1

\* a field name emitted twice, both occurrences handled, one entry
C19_Witness ==
    /\ Tokenized
    /\ \E j, k \in DOMAIN Top.tokens :
          /\ j < k
          /\ k < Top.i
          /\ Top.tokens[j] = Top.tokens[k]
          /\ HasEdge(Top.pos, Top.tokens[j])

\* C20: an entry is appended only for a token that is, character for
\* character, the name of a record, and the entry is that record's; tokens in
\* another letter case or that are a proper prefix or suffix of a name match
\* nothing: `Tax + reven + tota` has no dependency among tax, revenue, total, ax.
C20_ExactMatch ==
    [][ /\ (pc = "running" /\ chain' # chain) =>
              /\ Top.tokens[Top.i] \in FieldNameSet
              /\ chain'[Len(chain')].alias = Top.tokens[Top.i]
              /\ \E k \in DOMAIN calculatedFields :
                    /\ calculatedFields[k].name = Top.tokens[Top.i]
                    /\ calculatedFields[k].expression = chain'[Len(chain')].expression
        /\ (Returned /\ CalledWith(CaseInput))' => chain' = <<ChainEntry(CaseTarget, 0)>>
      ]_vars

\* the three near-misses were looked up and the call returned
C20_Witness ==
    /\ Returned
    /\ CalledWith(CaseInput)
    /\ Len(TokensOfEntry(1)) = 3
    /\ \A j \in 1..3 : TokensOfEntry(1)[j] \notin FieldNameSet
    /\ Len(chain) = 1

----------------------------------------------------------------------------
(* The shape of the chain *)

\* C21: every entry has type "calculatedField"; every entry after the first
\* has the name of a record of calculatedFields and that record's expression;
\* the first entry has the name and the expression of the caller's target.
C21_EntriesAreRecords ==
    pc # "init" =>
        /\ \A j \in DOMAIN chain : chain[j].type = "calculatedField"
        /\ \A j \in DOMAIN chain : j > 1 =>
              \E k \in DOMAIN calculatedFields :
                  /\ calculatedFields[k].name = chain[j].alias
                  /\ calculatedFields[k].expression = chain[j].expression
        /\ chain[1].alias = expression.name
        /\ chain[1].expression = expression.expression

\* a caller's target whose name a record with another expression has, with
\* a dependency
C21_Witness ==
    /\ Returned
    /\ Len(chain) >= 2
    /\ \E k \in DOMAIN calculatedFields :
          /\ calculatedFields[k].name = expression.name
          /\ calculatedFields[k].expression # expression.expression

\* the nearest entry before position j at the level just above chain[j]'s
NearestAbove(j) ==
    Max({p \in 1..(j - 1) : chain[p].level = chain[j].level - 1})

\* C22: an entry after the first has a level of at least 1 and at most one
\* more than the level of the entry before it, and the nearest entry before
\* it at the level just above has the entry's alias among the tokens of its
\* expression.
C22_ParentStructure ==
    \A j \in DOMAIN chain : j > 1 =>
        /\ chain[j].level >= 1
        /\ chain[j].level <= chain[j - 1].level + 1
        /\ \E p \in 1..(j - 1) : chain[p].level = chain[j].level - 1
        /\ chain[j].alias \in Range(extractTokens(chain[NearestAbove(j)].expression))

\* an entry that comes back to a smaller level after a deeper one, whose
\* nearest entry above is not the entry before it
C22_Witness ==
    /\ Returned
    /\ \E j \in DOMAIN chain :
          /\ j > 2
          /\ chain[j].level < chain[j - 1].level
          /\ NearestAbove(j) < j - 1

\* C23: the target's name is visited before anything is expanded: no entry
\* after the first has the target's name and no activation but the first is
\* for a field of that name, also when the target's expression or another
\* one refers to that name and when a record of that name has another
\* expression than the caller's target.
C23_TargetNameNeverExpanded ==
    pc # "init" =>
        /\ expression.name \in visited
        /\ \A j \in DOMAIN chain : j > 1 => chain[j].alias # expression.name
        /\ \A k \in DOMAIN stack : k > 1 => stack[k].currentField.name # expression.name

\* a record with the target's name and another expression, and an expanded
\* expression that refers to that name
C23_Witness ==
    /\ Returned
    /\ \E k \in DOMAIN calculatedFields :
          /\ calculatedFields[k].name = expression.name
          /\ calculatedFields[k].expression # expression.expression
    /\ \E j \in DOMAIN chain :
          /\ chain[j].level <= MaxDepth
          /\ expression.name \in Range(TokensOfEntry(j))

\* C24: no entry has a level above MaxDepth + 1; the linear chain resolved
\* from F0 returns F0 .. F<MaxDepth + 1> at the levels 0 .. MaxDepth + 1 and
\* nothing else.
C24_LevelAtMostLimitPlusOne ==
    /\ \A j \in DOMAIN chain : chain[j].level <= MaxDepth + 1
    /\ (Returned /\ CalledWith(LinearInput)) =>
          /\ Len(chain) = MaxDepth + 2
          /\ \A k \in 0..(MaxDepth + 1) :
                /\ chain[k + 1].alias = LinearName(k)
                /\ chain[k + 1].level = k
          /\ \A k \in (MaxDepth + 2)..ChainLast : LinearName(k) \notin Aliases

\* the linear chain has returned with its last entry one level above the limit
C24_Witness ==
    /\ Returned
    /\ CalledWith(LinearInput)
    /\ chain[Len(chain)].level = MaxDepth + 1
    /\ chain[Len(chain)].alias = LinearName(MaxDepth + 1)

\* the names reachable from the names by at most n more references
RECURSIVE ReachableWithin(_, _)
ReachableWithin(names, n) ==
    IF n = 0 THEN names
    ELSE CHOOSE next \in
            {before \cup UNION {ReferencesOf(MapGet(fieldMap, name).expression) :
                                   name \in before} :
                before \in {ReachableWithin(names, n - 1)}} : TRUE

\* C25 as stated: every field reachable from the target by a reference path
\* of at most MaxDepth references is in the chain.
C25_CompleteWithinBound ==
    Returned =>
        ReachableWithin(ReferencesOf(expression.expression), MaxDepth - 1)
            \subseteq Aliases

\* C25 amended: every field referred to by an entry of level at most MaxDepth
\* is in the chain, and when no entry is above level MaxDepth every field
\* reachable from the target without passing the target's own name is in the
\* chain; an entry at level MaxDepth + 1 is visited but not expanded.
C25_CompleteBelowUnexpandedEntries ==
    Returned =>
        /\ \A j \in DOMAIN chain :
              chain[j].level <= MaxDepth =>
                  ReferencesOf(chain[j].expression) \subseteq Aliases
        /\ (\A j \in DOMAIN chain : chain[j].level <= MaxDepth) =>
              ReachableFrom(ReferencesOf(expression.expression), {expression.name})
                  \subseteq Aliases

\* a field found first at level MaxDepth + 1 and referred to again by an entry
\* at a small level, whose own reference is missing from the chain
C25_Witness ==
    /\ Returned
    /\ \E j, p \in DOMAIN chain :
          /\ chain[j].level = MaxDepth + 1
          /\ chain[p].level < MaxDepth
          /\ p > j
          /\ chain[j].alias \in ReferencesOf(chain[p].expression)
          /\ ~(ReferencesOf(chain[j].expression) \subseteq Aliases)

\* C26: no entry after the first has an empty alias or an alias with a
\* character outside [A-Za-z0-9_-]: `a b+a.b` among the fields `a b`,
\* `a.b`, the empty name, a and b depends on a and b only.
C26_OnlyTokenShapedNames ==
    /\ \A j \in DOMAIN chain : j > 1 =>
          /\ Len(chain[j].alias) > 0
          /\ Range(chain[j].alias) \subseteq WordOrHyphen
    /\ (Returned /\ CalledWith(SpacedInput)) =>
          /\ Len(chain) = 3
          /\ chain[2].alias = <<"a">>
          /\ chain[3].alias = <<"b">>

\* fields with a space, a dot, or nothing in the name are in scope, their
\* names are spelled in expanded expressions, and none is an entry
C26_Witness ==
    /\ Returned
    /\ \E name \in FieldNameSet :
          /\ Len(name) > 0
          /\ ~(Range(name) \subseteq WordOrHyphen)
          /\ Occurrences(expression.expression, name) # {}
          /\ name \notin Aliases
    /\ << >> \in FieldNameSet
    /\ Len(chain) >= 3

----------------------------------------------------------------------------
(* The Sidebar's registry of the viewed analysis *)

\* C27: while an analysis is viewed, calculatedFields is empty or the
\* definition fetched for that analysis: an answer to a refreshData started
\* for another analysis never populates it.
C27_RegistryOfViewedAnalysis ==
    sidebar.analysisId # Null =>
        sidebar.calculatedFields \in {<< >>, FieldsOf(sidebar.analysisId)}

----------------------------------------------------------------------------
(* The tag cache *)

\* C28: a key stays stored until clearTagCache, which removes every key; a
\* call for a stored key returns the stored value and issues no fetch; and
\* the first call for a key after clearTagCache fetches.
C28_TagCacheContract ==
    [][ /\ \A key \in DOMAIN tagCache :
              key \notin DOMAIN tagCache' =>
                  (DOMAIN tagCache' = {} /\ tagLast'.cleared)
        /\ (tagLast' # tagLast /\ tagLast'.call = tagLast.call
                /\ tagLast'.calledSinceClear = {}) => DOMAIN tagCache' = {}
        /\ \A call \in tagCalls' \ tagCalls : call.key \notin DOMAIN tagCache
        /\ (tagLast'.call # tagLast.call /\ ~tagLast'.call.fetched) =>
              /\ tagLast'.call.key \in DOMAIN tagCache
              /\ tagLast'.call.tags = tagCache[tagLast'.call.key]
              /\ tagCalls' = tagCalls
        /\ tagLast'.call.firstSinceClear => tagLast'.call.fetched
      ]_vars

----------------------------------------------------------------------------
(* The expiry of the credentials *)

\* the expiration is a time after now
InTheFuture(expiration, now) == expiration.valid /\ expiration.time > now

\* a step in which the timer has run updateTimeLeft
TimerRan == hooks'.timeLeft # hooks.timeLeft /\ hooks'.timeLeft # ""

\* a step in which the credentials effect has run without credentials
ResetRan ==
    /\ hooks'.credentialsDeps # hooks.credentialsDeps
    /\ hooks'.credentialsDeps = <<Null>>

\* C29: a tick of the mounted timer at which the expiration is not in the
\* future sets credentials and sessionExpiration to null and shows the form,
\* an earlier tick does not; the credentials effect then sets analysisId to
\* null, calculatedFields and cloudTrailEvents to empty and
\* isChangeHistoryLoaded to false; so without credentials, once the effects
\* have run, no analysis is selected, and none is when new credentials
\* are received: no analysis tab is rendered from the expiry on until then.
C29_ExpiryResets ==
    [][ /\ (TimerRan /\ ~InTheFuture(sidebar.sessionExpiration, env.now)) =>
              /\ sidebar'.credentials = Null
              /\ sidebar'.sessionExpiration = Null
              /\ sidebar'.showJsonInput
              /\ hooks'.timeLeft = "Expired"
        /\ (TimerRan /\ InTheFuture(sidebar.sessionExpiration, env.now)) =>
              sidebar' = sidebar
        /\ ResetRan =>
              /\ sidebar'.analysisId = Null
              /\ sidebar'.calculatedFields = << >>
              /\ sidebar'.cloudTrailEvents = << >>
              /\ ~sidebar'.isChangeHistoryLoaded
        /\ (sidebar'.credentials = Null /\ EffectsFlushed') =>
              (sidebar'.analysisId = Null /\ ~TabRendered')
        /\ (sidebar.credentials = Null /\ sidebar'.credentials # Null) =>
              (sidebar.analysisId = Null /\ ~TabRendered)
        /\ sidebar'.credentials = Null => ~TabRendered'
      ]_vars

\* the session has expired on an analysis page after its clock reached the
\* expiration, the effects have run, and the form is shown
C29_Witness ==
    /\ hooks.timeLeft = "Expired"
    /\ sidebar.credentials = Null
    /\ sidebar.sessionExpiration = Null
    /\ sidebar.showJsonInput
    /\ EffectsFlushed
    /\ ~hooks.polling
    /\ hooks.prevUrl # Null
    /\ getAnalysisIdFromUrl(env.url) # Null
    /\ env.now >= 1
    /\ sidebar.analysisId = Null

----------------------------------------------------------------------------
(* The pages of CloudTrail events *)

\* the number of pages of a script that are requested, and that are received
PagesRequested(script) ==
    IF script.failAt # 0 THEN script.failAt ELSE Len(script.pages)

PagesReceived(script) ==
    IF script.failAt # 0 THEN script.failAt - 1 ELSE Len(script.pages)

\* the events of the first n pages of event name k, in page order
RECURSIVE EventsOfPages(_, _)
EventsOfPages(k, n) ==
    IF n = 0 THEN << >>
    ELSE CHOOSE all \in
            {before \o (IF trail.server[k].pages[n] = "events"
                        THEN <<[EventName |-> relevantEventNames[k], page |-> n]>>
                        ELSE << >>) :
                before \in {EventsOfPages(k, n - 1)}} : TRUE

\* the events received for the first k event names
RECURSIVE EventsOfNames(_)
EventsOfNames(k) ==
    IF k = 0 THEN << >>
    ELSE CHOOSE all \in
            {before \o EventsOfPages(k, PagesReceived(trail.server[k])) :
                before \in {EventsOfNames(k - 1)}} : TRUE

\* C30: a page after the first is requested only right after the answer to
\* the page before it, which carried a NextToken; nothing is requested after
\* the first answer without a NextToken or the first failed request; nothing
\* is thrown; fetchEventsForName returns the events of the pages received, in
\* page order; and every event name is fetched, whatever failed before it.
C30_Pagination ==
    /\ ~trail.threw
    /\ \A j \in DOMAIN trail.requests :
          LET k == trail.requests[j][1]
              page == trail.requests[j][2]
          IN  /\ page <= PagesRequested(trail.server[k])
              /\ page > 1 =>
                    /\ j > 1
                    /\ trail.requests[j - 1] = <<k, page - 1>>
                    /\ trail.server[k].failAt # page - 1
                    /\ page - 1 < Len(trail.server[k].pages)
              /\ page = 1 =>
                    (j = 1 \/ trail.requests[j - 1][1] = k - 1)
    /\ trail.pc = "return" =>
          trail.events = EventsOfPages(trail.nameIndex,
                                       PagesReceived(trail.server[trail.nameIndex]))
    /\ trail.pc = "done" =>
          /\ trail.allEvents = EventsOfNames(Len(relevantEventNames))
          /\ \A k \in DOMAIN relevantEventNames :
                Cardinality({j \in DOMAIN trail.requests : trail.requests[j][1] = k})
                    = PagesRequested(trail.server[k])

\* the second page of an event name failed after a first page with an
\* event, and the event names after it were fetched
C30_Witness ==
    /\ trail.pc = "done"
    /\ \E k \in 1..(Len(relevantEventNames) - 1) :
          /\ trail.server[k].failAt = 2
          /\ trail.server[k].pages[1] = "events"
          /\ \E j \in DOMAIN trail.allEvents :
                trail.allEvents[j] = [EventName |-> relevantEventNames[k], page |-> 1]
    /\ trail.requests[Len(trail.requests)] = <<Len(relevantEventNames), 1>>
    /\ Len(trail.allEvents) = Len(relevantEventNames)

====
